---- MODULE Spec2Model ----
(***************************************************************************)
(* Model of nflfantasy.draft.SnakeDraft and of the parts of                *)
(* nflfantasy.roster (Player, Positions, Roster) that the draft calls.     *)
(*                                                                         *)
(* Python values are rendered as follows:                                  *)
(*   - a Player is a record [position, injured_reserve];                   *)
(*   - the None that fills a roster slot or that pop() returns is          *)
(*     NonePlayer, the NaN of an empty results cell is NaN (both are       *)
(*     records of the Player shape so that TLC can compare them);          *)
(*   - an integer that may be None (peek's pair) uses the integer None;    *)
(*   - a call yields a record whose field exc is NoExc when the call       *)
(*     returned and the name of the raised exception otherwise.            *)
(*   - a slot count of a schema dict is a record [type, value], so that    *)
(*     counts that are not int objects can be handed to the constructor.   *)
(***************************************************************************)
EXTENDS Integers, Sequences, FiniteSets, TLC

\* ------------------------------------------------------------------ bounds
MaxTeams == 4
MaxRounds == 3
MaxTraceTeams == 2
MaxTraceRounds == 2
PickMargin == 2
MaxTrace == 8
MaxRosters == 2
MaxRosterTrace == 3
MaxCount == 2

\* ------------------------------------------------------- python renderings
None == 0 - 1
NoExc == "OK"
NonePlayer == [position |-> "None", injured_reserve |-> FALSE]
NaN == [position |-> "nan", injured_reserve |-> FALSE]

Player(position, injured_reserve) ==
    [position |-> position, injured_reserve |-> injured_reserve]

\* The players handed to push: two with canonical positions, one without.
Players == {Player("QB", FALSE), Player("WR", TRUE), Player("XX", FALSE)}

\* ------------------------------------------------------- roster.Positions
offense == <<"QB", "WR", "RB", "TE">>
flex == "W-R-T"
dst == "DEF"
kicker == "K"
bench == "BN"
injured_reserve == "IR"

positions == offense \o <<flex, dst, kicker, bench, injured_reserve>>

Range(s) == {s[i] : i \in DOMAIN s}

PositionsContains(item) == item \in Range(positions)

\* The mapping handed to Positions(schema): one slot count per code.
schema ==
    [k \in Range(positions) |->
        CASE k = "QB" -> 1
          [] k = "WR" -> 2
          [] k = "RB" -> 2
          [] k = "TE" -> 1
          [] k = flex -> 1
          [] k = dst -> 1
          [] k = kicker -> 1
          [] k = bench -> 6
          [] OTHER -> 1]

flexable(position) == position \in Range(offense) /\ position # "QB"

\* self.positions[key]: Positions defines __len__ and __contains__ but no
\* __getitem__, so subscripting a Positions object raises TypeError.
positions_getitem(key) == [exc |-> "TypeError", val |-> 0]

\* validate(*players): the first player, in order, that has no .position
\* attribute (None, NaN) raises AttributeError, the first whose position is
\* not a canonical code raises ValueError.
RECURSIVE validate(_)
validate(players) ==
    IF players = <<>> THEN NoExc
    ELSE IF Head(players) \in {NonePlayer, NaN} THEN "AttributeError"
    ELSE IF ~PositionsContains(Head(players).position) THEN "ValueError"
    ELSE validate(Tail(players))

\* ---------------------------------------------------------- roster.Roster
\* Roster(positions): every code maps to a tuple of schema[k] None slots.
EmptyRoster == [k \in Range(positions) |-> [i \in 1..schema[k] |-> NonePlayer]]

\* t[i] = v on a tuple: tuples do not support item assignment.
tuple_setitem(t, i, v) == [exc |-> "TypeError", val |-> t]

\* t.index(v): position of the first occurrence, ValueError when absent.
tuple_index(t, v) ==
    IF v \in Range(t)
    THEN [exc |-> NoExc, val |-> CHOOSE i \in DOMAIN t : t[i] = v /\ \A j \in 1..(i - 1) : t[j] # v]
    ELSE [exc |-> "ValueError", val |-> 0]

\* The body of add's loop for the remaining players.
RECURSIVE add_loop(_, _, _)
add_loop(roster, players, added) ==
    IF players = <<>> THEN [exc |-> NoExc, roster |-> roster, val |-> added]
    ELSE
        LET player == Head(players)
            natural == positions_getitem(player.position)
            flexcap == positions_getitem(flex)
            benchcap == positions_getitem(bench)
            raise(e) == [exc |-> e, roster |-> roster, val |-> added]
            place(position) ==
                LET idx == tuple_index(roster[position], NonePlayer)
                    set == tuple_setitem(roster[position], idx.val, player)
                IN  IF idx.exc # NoExc THEN raise(idx.exc)
                    ELSE IF set.exc # NoExc THEN raise(set.exc)
                    ELSE add_loop([roster EXCEPT ![position] = set.val],
                                  Tail(players), Append(added, player))
        IN  IF natural.exc # NoExc THEN raise(natural.exc)
            ELSE IF Len(roster[player.position]) < natural.val
                THEN place(player.position)
            ELSE IF ~flexable(player.position)
                THEN (IF benchcap.exc # NoExc THEN raise(benchcap.exc)
                      ELSE IF Len(roster[bench]) < benchcap.val THEN place(bench)
                      ELSE add_loop(roster, Tail(players), added))
            ELSE IF flexcap.exc # NoExc THEN raise(flexcap.exc)
            ELSE IF Len(roster[flex]) < flexcap.val THEN place(flex)
            ELSE IF benchcap.exc # NoExc THEN raise(benchcap.exc)
            ELSE IF Len(roster[bench]) < benchcap.val THEN place(bench)
            ELSE add_loop(roster, Tail(players), added)

\* Roster.add(*players)
add(roster, players) ==
    IF validate(players) # NoExc
    THEN [exc |-> validate(players), roster |-> roster, val |-> <<>>]
    ELSE add_loop(roster, players, <<>>)

\* The body of drop's loop for the remaining players.  The check of the
\* natural-position tuple comes first and raises, so the search that follows
\* it always settles on the natural position.
RECURSIVE drop_loop(_, _, _)
drop_loop(roster, players, dropped) ==
    IF players = <<>> THEN [exc |-> NoExc, roster |-> roster, val |-> dropped]
    ELSE
        LET player == Head(players)
            raise(e) == [exc |-> e, roster |-> roster, val |-> dropped]
        IN  IF player \notin Range(roster[player.position]) THEN raise("ValueError")
            ELSE
                LET position == IF player \in Range(roster[player.position]) THEN player.position
                                ELSE IF player \in Range(roster[flex]) THEN flex
                                ELSE bench
                    idx == tuple_index(roster[position], player)
                    set == tuple_setitem(roster[position], idx.val, NonePlayer)
                IN  IF idx.exc # NoExc THEN raise(idx.exc)
                    ELSE IF set.exc # NoExc THEN raise(set.exc)
                    ELSE drop_loop([roster EXCEPT ![position] = set.val],
                                   Tail(players), Append(dropped, player))

\* drop() passing over a player that is in no slot of its natural position
drop_skipping(roster, players) ==
    IF validate(players) # NoExc
    THEN [exc |-> validate(players), roster |-> roster, val |-> <<>>]
    ELSE [exc |-> NoExc, roster |-> roster, val |-> <<>>]

\* Roster.drop(*players)
drop(roster, players) ==
    IF validate(players) # NoExc
    THEN [exc |-> validate(players), roster |-> roster, val |-> <<>>]
    ELSE drop_loop(roster, players, <<>>)

\* Positions.moveable(player, destination)
moveable(player, destination) ==
    IF validate(<<player>>) # NoExc THEN [exc |-> validate(<<player>>), val |-> FALSE]
    ELSE IF ~PositionsContains(destination) THEN [exc |-> "KeyError", val |-> FALSE]
    ELSE [exc |-> NoExc,
          val |-> \/ destination = bench
                  \/ destination = player.position
                  \/ (player.injured_reserve /\ destination = injured_reserve)
                  \/ (flexable(player.position) /\ destination = flex)]

\* The arguments of the exception that validate raises: ValueError(player)
\* is raised by validate itself, the AttributeError of a None or NaN player
\* by the interpreter, with its message and no player.
validate_args(players) == IF validate(players) = "ValueError" THEN "(player)" ELSE "()"

\* move raising exc(args), the roster as it was
move_raise(roster, exc, args) == [exc |-> exc, args |-> args, roster |-> roster]

\* move() writing the player into the first slot of the destination without
\* vacating the slot the player came from
move_copying(roster, player, destination, replace) ==
    IF validate(<<player>>) # NoExc
    THEN move_raise(roster, validate(<<player>>), validate_args(<<player>>))
    ELSE IF moveable(player, destination).exc # NoExc
        THEN move_raise(roster, moveable(player, destination).exc, "(destination)")
    ELSE IF ~moveable(player, destination).val
        THEN move_raise(roster, "ValueError", "(player, destination)")
    ELSE [exc |-> NoExc, args |-> "()",
          roster |-> [roster EXCEPT ![destination][1] = player]]

\* Roster.move(player, destination, replace=replace); replace is NonePlayer
\* when omitted.  The result names the exception and its arguments, "()" for
\* an exception that the interpreter raises with its own message.
move(roster, player, destination, replace) ==
    IF validate(<<player>>) # NoExc
    THEN move_raise(roster, validate(<<player>>), validate_args(<<player>>))
    ELSE
        LET can == moveable(player, destination)
            cap == positions_getitem(destination)
        IN  IF can.exc # NoExc THEN move_raise(roster, can.exc, "(destination)")
            ELSE IF ~can.val THEN move_raise(roster, "ValueError", "(player, destination)")
            ELSE IF cap.exc # NoExc THEN move_raise(roster, cap.exc, "()")
            ELSE IF Len(roster[destination]) = cap.val /\ replace = NonePlayer
                THEN move_raise(roster, "ValueError", "(replace)")
            ELSE IF ~(\/ player \in Range(roster[player.position])
                      \/ player \in Range(roster[flex])
                      \/ player \in Range(roster[bench]))
                THEN move_raise(roster, "ValueError", "(player)")
            ELSE
                LET source == IF player \in Range(roster[player.position]) THEN player.position
                              ELSE IF player \in Range(roster[flex]) THEN flex
                              ELSE bench
                IN  [exc |-> NoExc, args |-> "()",
                     roster |-> [[roster EXCEPT ![source] = replace]
                                    EXCEPT ![destination] = player]]

\* The add/drop arguments of transaction and trade: omitted (None), one
\* Player, or a sequence of players.
Omitted == [kind |-> "None", players |-> <<>>]
One(player) == [kind |-> "Player", players |-> <<player>>]
Many(players) == [kind |-> "Sequence", players |-> players]

\* f(arg) if isinstance(arg, Player) else f(*arg): the positional arguments
\* that f receives; *None raises TypeError at the call.
star(arg) ==
    IF arg.kind = "None" THEN [exc |-> "TypeError", val |-> <<>>]
    ELSE [exc |-> NoExc, val |-> arg.players]

\* The summary dict of a transaction, "+" and "-".
Summary(plus, minus) == [plus |-> plus, minus |-> minus]

\* Roster.transaction(add=a, drop=d): the "+" entry is evaluated first, then
\* the "-" entry; an exception in the second leaves the first applied.
transaction(roster, a, d) ==
    LET raise(e, r) == [exc |-> e, roster |-> r, val |-> Summary(<<>>, <<>>)]
    IN  IF star(a).exc # NoExc THEN raise(star(a).exc, roster)
        ELSE
            LET plus == add(roster, star(a).val)
            IN  IF plus.exc # NoExc THEN raise(plus.exc, plus.roster)
                ELSE IF star(d).exc # NoExc THEN raise(star(d).exc, plus.roster)
                ELSE
                    LET minus == drop(plus.roster, star(d).val)
                    IN  IF minus.exc # NoExc THEN raise(minus.exc, minus.roster)
                        ELSE [exc |-> NoExc, roster |-> minus.roster,
                              val |-> Summary(plus.val, minus.val)]

\* trade() handing the first player of add to the roster, without taking it
\* from the other roster
trade_receiving(mine, theirs, a, d) ==
    LET none == Summary(<<>>, <<>>)
    IN  IF star(a).exc = NoExc /\ star(a).val # <<>> /\ validate(star(a).val) = NoExc
        THEN LET player == Head(star(a).val)
             IN  [exc |-> NoExc,
                  mine |-> [mine EXCEPT ![player.position][1] = player],
                  theirs |-> theirs,
                  val |-> [self |-> Summary(<<player>>, <<>>), other |-> none]]
        ELSE [exc |-> "TypeError", mine |-> mine, theirs |-> theirs,
              val |-> [self |-> none, other |-> none]]

\* Roster.trade(other, add=a, drop=d) on the rosters mine and theirs: the
\* dict is built in the order self.add(a), self.drop(d), other.add(d),
\* other.drop(a); an exception leaves the earlier steps applied.
trade(mine, theirs, a, d) ==
    LET none == Summary(<<>>, <<>>)
        raise(e, m, t) == [exc |-> e, mine |-> m, theirs |-> t,
                           val |-> [self |-> none, other |-> none]]
    IN  IF star(a).exc # NoExc THEN raise(star(a).exc, mine, theirs)
        ELSE
            LET s1 == add(mine, star(a).val)
            IN  IF s1.exc # NoExc THEN raise(s1.exc, s1.roster, theirs)
                ELSE IF star(d).exc # NoExc THEN raise(star(d).exc, s1.roster, theirs)
                ELSE
                    LET s2 == drop(s1.roster, star(d).val)
                    IN  IF s2.exc # NoExc THEN raise(s2.exc, s2.roster, theirs)
                        ELSE
                            LET s3 == add(theirs, star(d).val)
                            IN  IF s3.exc # NoExc THEN raise(s3.exc, s2.roster, s3.roster)
                                ELSE
                                    LET s4 == drop(s3.roster, star(a).val)
                                    IN  IF s4.exc # NoExc
                                        THEN raise(s4.exc, s2.roster, s4.roster)
                                        ELSE [exc |-> NoExc, mine |-> s2.roster,
                                              theirs |-> s4.roster,
                                              val |-> [self |-> Summary(s1.val, s2.val),
                                                       other |-> Summary(s3.val, s4.val)]]

\* -------------------------------------------------------- draft.SnakeDraft
VARIABLES
    rosters,    \* self._rosters: the tuple of rosters, rosters[i + 1] is index i
    nrounds,    \* self._nrounds
    picks,      \* self._picks: the (round, pick) pairs the iterator still yields
    size,       \* self._size
    results,    \* self._results: results[round][roster index], NaN when empty
    ret,        \* the last call: its name, argument, exception and return value
    trace,      \* the push and pop calls since construction or reset (SpecTrace)
    instance    \* the Positions object the rosters are built over (SpecSchema)

vars == <<rosters, nrounds, picks, size, results, ret, trace, instance>>

nteams == Len(rosters)
volume == nrounds * nteams

NonePair == <<None, None>>

\* reset() numbering the rounds of its pairs from 0, as get_nround does
reset_picks_zero_based == [i \in 1..volume |-> <<(i - 1) \div nteams, i>>]

\* reset(): the generator ((i // nteams + 1, i + 1) for i in range(volume))
reset_picks == [i \in 1..volume |-> <<((i - 1) \div nteams) + 1, i>>]

\* reset(): a frame of NaN with index 1..nrounds and one column per roster
reset_results == [r \in 1..nrounds |-> [c \in 0..(nteams - 1) |-> NaN]]

get_nround(pick) ==
    IF ~(1 <= pick /\ pick <= volume)
    THEN [exc |-> "ValueError", val |-> None]
    ELSE [exc |-> NoExc, val |-> (pick - 1) \div nteams]

\* get_team(pick): the index in self.rosters of the roster returned
get_team(pick) ==
    LET nround == get_nround(pick)
    IN  IF nround.exc # NoExc THEN nround
        ELSE [exc |-> NoExc,
              val |-> IF nround.val % 2 = 1
                      THEN (pick - 1) % nteams
                      ELSE nteams - (((pick - 1) % nteams) + 1)]

\* peek() without the chain that puts the pair back
peek_consuming ==
    IF picks = <<>>
    THEN [picks |-> picks, val |-> <<None, None>>]
    ELSE [picks |-> Tail(picks), val |-> Head(picks)]

\* peek(): next() on the iterator, then the pair is chained back in front
peek ==
    IF picks = <<>>
    THEN [picks |-> picks, val |-> NonePair]
    ELSE [picks |-> <<Head(picks)>> \o Tail(picks), val |-> Head(picks)]

\* The draft as one record, and the outcome of a call on it.
self == [picks |-> picks, size |-> size, results |-> results, rosters |-> rosters]

outcome(st, exc, val) ==
    [picks |-> st.picks, size |-> st.size, results |-> st.results,
     rosters |-> st.rosters, exc |-> exc, val |-> val]

\* push raising e once next(self._picks) has run: nothing puts the pair back
push_raise_counted(st, e) == outcome([st EXCEPT !.size = st.size + 1], e, NonePair)

push_raise(st, e) == outcome(st, e, NonePair)

\* push past the check of `added`: the cell is written and the size counted
push_record(st, nround, pick, column, player) ==
    outcome([st EXCEPT !.results = [st.results EXCEPT ![nround][column] = player],
                       !.size = st.size + 1],
            NoExc, <<nround, pick>>)

\* push() recording the player in the grid although the roster did not add it
push_recording_unadded(player) ==
    IF picks = <<>> THEN outcome(self, "StopIteration", NonePair)
    ELSE
        LET nround == Head(picks)[1]
            pick == Head(picks)[2]
            taken == [self EXCEPT !.picks = Tail(picks)]
            team == get_team(pick)
        IN  IF team.exc # NoExc THEN push_raise(taken, team.exc)
            ELSE push_record(taken, nround, pick, team.val, player)

push(player) ==
    IF picks = <<>> THEN outcome(self, "StopIteration", NonePair)
    ELSE
        LET nround == Head(picks)[1]
            pick == Head(picks)[2]
            taken == [self EXCEPT !.picks = Tail(picks)]
            team == get_team(pick)
        IN  IF team.exc # NoExc THEN push_raise(taken, team.exc)
            ELSE
                LET added == add(rosters[team.val + 1], <<player>>)
                    after == [taken EXCEPT
                                !.rosters = [rosters EXCEPT ![team.val + 1] = added.roster]]
                IN  IF added.exc # NoExc THEN push_raise(after, added.exc)
                    ELSE IF player \notin Range(added.val)
                        THEN push_raise(after, "ValueError")
                    ELSE push_record(after, nround, pick, team.val, player)

\* pop past its len(self) == 0 guard
pop_undo ==
    LET peeked == peek
        nround == IF peeked.val[1] = None THEN nrounds
                  ELSE IF (peeked.val[2] - 1) % nteams = 0 THEN peeked.val[1] - 1
                  ELSE peeked.val[1]
        pick == IF peeked.val[2] = None THEN volume ELSE peeked.val[2] - 1
        seen == [self EXCEPT !.picks = peeked.picks]
        team == get_team(pick)
    IN  IF team.exc # NoExc THEN outcome(seen, team.exc, NonePlayer)
        ELSE
            LET player == results[nround][team.val]
                dropped == drop(rosters[team.val + 1], <<player>>)
                after == [seen EXCEPT
                            !.rosters = [rosters EXCEPT ![team.val + 1] = dropped.roster]]
            IN  IF dropped.exc # NoExc THEN outcome(after, dropped.exc, NonePlayer)
                ELSE IF player \notin Range(dropped.val)
                    THEN outcome(after, "ValueError", NonePlayer)
                ELSE outcome([after EXCEPT
                                !.results = [results EXCEPT ![nround][team.val] = NaN],
                                !.size = size - 1,
                                !.picks = <<<<nround, pick>>>> \o peeked.picks],
                             NoExc, player)

\* pop() without its len(self) == 0 guard
pop_unguarded == pop_undo

pop == IF size = 0 THEN outcome(self, NoExc, NonePlayer) ELSE pop_undo

\* ------------------------------------------- roster.Positions, constructed
\* A slot count handed to Positions(schema) is a record of its Python type
\* and its value as range() and sum() read it.
int(n) == [type |-> "int", value |-> n]
True == [type |-> "bool", value |-> 1]
Str == [type |-> "str", value |-> 0]

isinstance_int(x) == x.type \in {"int", "bool"}

\* The two subclasses of Positions that set flex and dst.
Classes == {"PositionsESPN", "PositionsYahoo"}

flex_of(cls) == IF cls = "PositionsESPN" THEN "FLEX" ELSE flex

dst_of(cls) == IF cls = "PositionsESPN" THEN "D/ST" ELSE dst

\* The property Positions.positions, as defined in the base class.
positions_property(cls) ==
    offense \o <<flex_of(cls), dst_of(cls), kicker, bench, injured_reserve>>

\* self.positions on an object of cls: PositionsESPN sets a class attribute
\* named positions, which takes the place of the inherited property.
positions_of(cls) ==
    IF cls = "PositionsESPN" THEN <<"QB", "RB", "WR", "TE">> ELSE positions_property(cls)

\* obj.validate(*players) on an object of cls: `in self` reads self.positions
RECURSIVE validate_of(_, _)
validate_of(cls, players) ==
    IF players = <<>> THEN NoExc
    ELSE IF Head(players) \in {NonePlayer, NaN} THEN "AttributeError"
    ELSE IF Head(players).position \notin Range(positions_of(cls)) THEN "ValueError"
    ELSE validate_of(cls, Tail(players))

\* obj.moveable(player, destination) on an object of cls
moveable_of(cls, player, destination) ==
    IF validate_of(cls, <<player>>) # NoExc
    THEN [exc |-> validate_of(cls, <<player>>), val |-> FALSE]
    ELSE IF destination \notin Range(positions_of(cls))
        THEN [exc |-> "KeyError", val |-> FALSE]
    ELSE [exc |-> NoExc,
          val |-> \/ destination = bench
                  \/ destination = player.position
                  \/ (player.injured_reserve /\ destination = injured_reserve)
                  \/ (flexable(player.position) /\ destination = flex_of(cls))]

\* sorted(schema) == sorted(codes): the keys of the dict are the codes, each
\* exactly once.
sorted_equal(keys, codes) == Cardinality(keys) = Len(codes) /\ keys = Range(codes)

\* No Positions object.
NoInstance == [cls |-> "None", schema |-> [k \in {} |-> int(0)]]

\* cls(schema): the constructor Positions.__init__
Positions_init(cls, counts) ==
    IF ~sorted_equal(DOMAIN counts, positions_of(cls))
    THEN [exc |-> "KeyError", val |-> NoInstance]
    ELSE IF ~(\A k \in DOMAIN counts : isinstance_int(counts[k]))
        THEN [exc |-> "ValueError", val |-> NoInstance]
    ELSE [exc |-> NoExc,
          val |-> [cls |-> cls,
                   schema |-> [k \in Range(positions_of(cls)) |-> counts[k]]]]

\* sum() of the counts of the codes, in the order of the dict
RECURSIVE sum_values(_, _)
sum_values(counts, codes) ==
    IF codes = <<>> THEN 0
    ELSE counts[Head(codes)].value + sum_values(counts, Tail(codes))

\* obj.__len__(): Positions.__len__
Positions_dunder_len(obj) == sum_values(obj.schema, positions_of(obj.cls))

\* len(obj): the built-in raises ValueError when __len__ returns a negative
\* number
Positions_len(obj) ==
    IF Positions_dunder_len(obj) < 0
    THEN [exc |-> "ValueError", val |-> None]
    ELSE [exc |-> NoExc, val |-> Positions_dunder_len(obj)]

\* Roster(obj): one tuple of range(count) None slots per code, then add()
\* with no players.
Roster_init(obj) ==
    [k \in Range(positions_of(obj.cls)) |-> [i \in 1..obj.schema[k].value |-> NonePlayer]]

\* The object that the rosters of the draft are built over.
YahooCounts == [k \in Range(positions) |-> int(schema[k])]

\* ----------------------------------------------------------------- actions
Call(op, arg, exc, val) == [op |-> op, arg |-> arg, exc |-> exc, val |-> val]

\* SnakeDraft(rosters, nrounds) over freshly built, empty rosters
InitOver(teams, rounds) ==
    /\ rosters \in {[i \in 1..n |-> EmptyRoster] : n \in teams}
    /\ nrounds \in rounds
    /\ size = 0
    /\ picks = reset_picks
    /\ results = reset_results
    /\ ret = Call("__init__", 0, NoExc, 0)
    /\ trace = <<>>
    /\ instance = Positions_init("PositionsYahoo", YahooCounts).val

Init == InitOver(1..MaxTeams, 1..MaxRounds)

DoPeek ==
    /\ picks' = peek.picks
    /\ ret' = Call("peek", 0, NoExc, peek.val)
    /\ UNCHANGED <<rosters, nrounds, size, results, instance>>

DoPush(player) ==
    LET r == push(player)
    IN  /\ picks' = r.picks
        /\ size' = r.size
        /\ results' = r.results
        /\ rosters' = r.rosters
        /\ ret' = Call("push", player, r.exc, r.val)
        /\ UNCHANGED <<nrounds, instance>>

DoPop ==
    LET r == pop
    IN  /\ picks' = r.picks
        /\ size' = r.size
        /\ results' = r.results
        /\ rosters' = r.rosters
        /\ ret' = Call("pop", 0, r.exc, r.val)
        /\ UNCHANGED <<nrounds, instance>>

DoReset ==
    /\ size' = 0
    /\ picks' = reset_picks
    /\ results' = reset_results
    /\ ret' = Call("reset", 0, NoExc, 0)
    /\ UNCHANGED <<rosters, nrounds, instance>>

Peek == DoPeek /\ UNCHANGED trace

Push == \E player \in Players : DoPush(player) /\ UNCHANGED trace

Pop == DoPop /\ UNCHANGED trace

Reset == DoReset /\ UNCHANGED trace

GetNround ==
    \E pick \in (0 - PickMargin)..(volume + PickMargin) :
        /\ ret' = Call("get_nround", pick, get_nround(pick).exc, get_nround(pick).val)
        /\ UNCHANGED <<rosters, nrounds, picks, size, results, trace, instance>>

GetTeam ==
    \E pick \in (0 - PickMargin)..(volume + PickMargin) :
        /\ ret' = Call("get_team", pick, get_team(pick).exc, get_team(pick).val)
        /\ UNCHANGED <<rosters, nrounds, picks, size, results, trace, instance>>

Next == Peek \/ Push \/ Pop \/ Reset \/ GetNround \/ GetTeam

Spec == Init /\ [][Next]_vars

\* ------------------------------------------------- the calls as a history
\* The same calls, each push and pop appended to trace; reset starts the
\* history again.  Players with a canonical position only, so that every
\* roster has a vacant slot for every pushed player.
TracePlayers == {p \in Players : PositionsContains(p.position)}

InitTrace == InitOver(1..MaxTraceTeams, 1..MaxTraceRounds)

TracePush ==
    /\ Len(trace) < MaxTrace
    /\ \E player \in TracePlayers : DoPush(player) /\ trace' = Append(trace, ret')

TracePop ==
    /\ Len(trace) < MaxTrace
    /\ DoPop
    /\ trace' = Append(trace, ret')

TraceReset == DoReset /\ trace' = <<>>

NextTrace == TracePush \/ TracePop \/ TraceReset

SpecTrace == InitTrace /\ [][NextTrace]_vars

\* ------------------------------------------------------- calls on rosters
\* The Roster methods called directly on the rosters of a one-round draft.
QBF == Player("QB", FALSE)
QBT == Player("QB", TRUE)
WRT == Player("WR", TRUE)
XXF == Player("XX", FALSE)

RosterPlayers == {QBF, QBT, WRT, XXF}
MoveablePlayers == {Player(k, ir) : k \in Range(positions) \cup {"XX"}, ir \in BOOLEAN}
Batches == {<<>>, <<QBF>>, <<WRT>>, <<XXF>>, <<QBF, QBT>>, <<WRT, QBF>>}
Destinations == {"QB", "WR", flex, bench, injured_reserve, "ZZ"}
Replacements == {NonePlayer, QBF}
Arguments == {Omitted, One(QBF), One(WRT)} \cup {Many(b) : b \in Batches}

InitRoster == InitOver({MaxRosters}, {1})

DoAdd(i, players) ==
    LET r == add(rosters[i], players)
    IN  /\ rosters' = [rosters EXCEPT ![i] = r.roster]
        /\ ret' = Call("add", [roster |-> i, players |-> players], r.exc, r.val)
        /\ UNCHANGED <<nrounds, picks, size, results, instance>>

DoDrop(i, players) ==
    LET r == drop(rosters[i], players)
    IN  /\ rosters' = [rosters EXCEPT ![i] = r.roster]
        /\ ret' = Call("drop", [roster |-> i, players |-> players], r.exc, r.val)
        /\ UNCHANGED <<nrounds, picks, size, results, instance>>

\* move returns None: val holds the arguments of the exception raised
DoMove(i, player, destination, replace) ==
    LET r == move(rosters[i], player, destination, replace)
    IN  /\ rosters' = [rosters EXCEPT ![i] = r.roster]
        /\ ret' = Call("move",
                       [roster |-> i, player |-> player,
                        destination |-> destination, replace |-> replace],
                       r.exc, r.args)
        /\ UNCHANGED <<nrounds, picks, size, results, instance>>

DoTransaction(i, a, d) ==
    LET r == transaction(rosters[i], a, d)
    IN  /\ rosters' = [rosters EXCEPT ![i] = r.roster]
        /\ ret' = Call("transaction", [roster |-> i, add |-> a, drop |-> d], r.exc, r.val)
        /\ UNCHANGED <<nrounds, picks, size, results, instance>>

DoTrade(i, j, a, d) ==
    LET r == trade(rosters[i], rosters[j], a, d)
    IN  /\ i # j
        /\ rosters' = [rosters EXCEPT ![i] = r.mine, ![j] = r.theirs]
        /\ ret' = Call("trade", [roster |-> i, other |-> j, add |-> a, drop |-> d],
                       r.exc, r.val)
        /\ UNCHANGED <<nrounds, picks, size, results, instance>>

Add == \E i \in 1..nteams, b \in Batches : DoAdd(i, b) /\ UNCHANGED trace

Drop == \E i \in 1..nteams, b \in Batches : DoDrop(i, b) /\ UNCHANGED trace

Move ==
    \E i \in 1..nteams, p \in RosterPlayers, dest \in Destinations, replace \in Replacements :
        DoMove(i, p, dest, replace) /\ UNCHANGED trace

Moveable ==
    \E p \in MoveablePlayers, dest \in Range(positions) \cup {"ZZ"} :
        /\ ret' = Call("moveable", [player |-> p, destination |-> dest],
                       moveable(p, dest).exc, moveable(p, dest).val)
        /\ UNCHANGED <<rosters, nrounds, picks, size, results, trace, instance>>

Transaction ==
    \E i \in 1..nteams, a \in Arguments, d \in Arguments :
        DoTransaction(i, a, d) /\ UNCHANGED trace

Trade ==
    \E i \in 1..nteams, j \in 1..nteams, a \in Arguments \ {Omitted}, d \in Arguments \ {Omitted} :
        DoTrade(i, j, a, d) /\ UNCHANGED trace

NextRoster == Add \/ Drop \/ Move \/ Moveable \/ Transaction \/ Trade

SpecRoster == InitRoster /\ [][NextRoster]_vars

\* The same calls as a history: players with canonical positions, each call
\* appended to trace.
TraceBatches == {<<QBF>>, <<WRT>>, <<QBF, QBT>>}

TraceAdd ==
    /\ Len(trace) < MaxRosterTrace
    /\ \E i \in 1..nteams, b \in TraceBatches : DoAdd(i, b) /\ trace' = Append(trace, ret')

TraceMove ==
    /\ Len(trace) < MaxRosterTrace
    /\ \E i \in 1..nteams, p \in {QBF, QBT, WRT}, dest \in {"QB", bench},
          replace \in Replacements :
            DoMove(i, p, dest, replace) /\ trace' = Append(trace, ret')

TraceTrade ==
    /\ Len(trace) < MaxRosterTrace
    /\ \E i \in 1..nteams, j \in 1..nteams :
            DoTrade(i, j, Many(<<WRT>>), Many(<<QBF>>)) /\ trace' = Append(trace, ret')

NextRosterTrace == TraceAdd \/ TraceMove \/ TraceTrade

SpecRosterTrace == InitRoster /\ [][NextRosterTrace]_vars

\* ------------------------------------ schemas, and the rosters built on one
\* The dicts handed to the constructor: the nine codes of either subclass,
\* the four codes of PositionsESPN.positions, a code missing, a code too
\* many, no code at all; the counts of the first and of the last code range
\* over Counts, every other count is 1.
KeySeqs ==
    {positions_property("PositionsYahoo"), positions_property("PositionsESPN"),
     positions_of("PositionsESPN"),
     SubSeq(positions, 1, Len(positions) - 1), Append(positions, "ZZ")}

Counts == {int(n) : n \in (0 - MaxCount)..MaxCount} \cup {True, Str}

Schemata ==
    {[k \in Range(ks) |-> IF k = ks[1] THEN c1
                          ELSE IF k = ks[Len(ks)] THEN c2
                          ELSE int(1)] : ks \in KeySeqs, c1 \in Counts, c2 \in Counts}
    \cup {[k \in {} |-> int(0)]}

\* No Positions object yet, and no roster.
InitSchema ==
    /\ rosters = <<>>
    /\ nrounds = 1
    /\ size = 0
    /\ picks = <<>>
    /\ results = <<>>
    /\ ret = Call("__init__", 0, NoExc, 0)
    /\ trace = <<>>
    /\ instance = NoInstance

\* cls(counts), until one construction returns: the schema is created once,
\* before the rosters.
Construct ==
    /\ instance = NoInstance
    /\ \E cls \in Classes, counts \in Schemata :
        LET r == Positions_init(cls, counts)
        IN  /\ instance' = r.val
            /\ ret' = Call("Positions", [cls |-> cls, schema |-> counts], r.exc, 0)
    /\ UNCHANGED <<rosters, nrounds, picks, size, results, trace>>

SchemaLen ==
    /\ instance # NoInstance
    /\ ret' = Call("__len__", instance, Positions_len(instance).exc, Positions_len(instance).val)
    /\ UNCHANGED <<rosters, nrounds, picks, size, results, trace, instance>>

SchemaPositions ==
    /\ instance # NoInstance
    /\ ret' = Call("positions", instance, NoExc, positions_of(instance.cls))
    /\ UNCHANGED <<rosters, nrounds, picks, size, results, trace, instance>>

\* Roster(instance).  The Roster methods of this model read the codes of
\* PositionsYahoo, so the rosters are built over objects of that class.
NewRoster ==
    /\ instance # NoInstance
    /\ instance.cls = "PositionsYahoo"
    /\ Len(rosters) < MaxRosters
    /\ rosters' = Append(rosters, Roster_init(instance))
    /\ ret' = Call("Roster", instance, NoExc, 0)
    /\ UNCHANGED <<nrounds, picks, size, results, trace, instance>>

\* The positions of the players and the destinations handed to moveable:
\* codes of both subclasses, of one of them, and of neither.
SchemaPositionCodes == {"QB", "WR", kicker, "XX"}
SchemaDestinations == {"QB", "WR", bench, injured_reserve, flex, "FLEX", "ZZ"}

SchemaMoveable ==
    /\ instance # NoInstance
    /\ \E position \in SchemaPositionCodes, ir \in BOOLEAN, dest \in SchemaDestinations :
        LET r == moveable_of(instance.cls, Player(position, ir), dest)
        IN  ret' = Call("moveable",
                        [cls |-> instance.cls, player |-> Player(position, ir),
                         destination |-> dest],
                        r.exc, r.val)
    /\ UNCHANGED <<rosters, nrounds, picks, size, results, trace, instance>>

SchemaAdd ==
    \E i \in 1..nteams, b \in {<<>>, <<QBF>>, <<XXF>>} : DoAdd(i, b) /\ UNCHANGED trace

SchemaDrop == \E i \in 1..nteams, b \in {<<QBF>>, <<XXF>>} : DoDrop(i, b) /\ UNCHANGED trace

SchemaMove ==
    \E i \in 1..nteams, dest \in {"QB", flex, bench} :
        DoMove(i, QBF, dest, NonePlayer) /\ UNCHANGED trace

NextSchema ==
    Construct \/ SchemaLen \/ SchemaPositions \/ SchemaMoveable \/ NewRoster
        \/ SchemaAdd \/ SchemaDrop \/ SchemaMove

SpecSchema == InitSchema /\ [][NextSchema]_vars

\* ------------------------------------------------------------------ claims
\* ceil(p / n)
Ceil(p, n) == (p + n - 1) \div n

\* The roster index that picks in snake order at pick p: roster order in the
\* odd rounds, reversed in the even rounds.
SnakeTeam(p) ==
    IF Ceil(p, nteams) % 2 = 1 THEN (p - 1) % nteams
    ELSE nteams - 1 - ((p - 1) % nteams)

\* The cells of the results grid that hold a player.
Filled == {rc \in (1..nrounds) \X (0..(nteams - 1)) : results[rc[1]][rc[2]] # NaN}

\* C1: for every pick p in 1..R*N, get_team(p) returns the roster at index
\* (p-1) mod N in an odd round and at index N-1-((p-1) mod N) in an even round.
C1_SnakeOrder ==
    (ret.op = "get_team" /\ ret.arg \in 1..volume)
        => (ret.exc = NoExc /\ ret.val = SnakeTeam(ret.arg))

\* C2: get_nround(p) returns the 1-indexed round ceil(p / N) for p in 1..R*N
\* and raises the range error for any other p, and so does get_team(p).
C2_RoundOfPick ==
    /\ (ret.op = "get_nround" /\ ret.arg \in 1..volume)
            => (ret.exc = NoExc /\ ret.val = Ceil(ret.arg, nteams))
    /\ (ret.op \in {"get_nround", "get_team"} /\ ret.arg \notin 1..volume)
            => ret.exc = "ValueError"

\* The history is R*N pushes followed by R*N pops on a fresh draft.
IsRoundTrip ==
    /\ Len(trace) = 2 * volume
    /\ \A i \in 1..volume : trace[i].op = "push"
    /\ \A i \in (volume + 1)..(2 * volume) : trace[i].op = "pop"

\* C3: on a fresh draft, R*N pushes followed by R*N pops all succeed, the
\* pops return the pushed players in reverse order of insertion, and the
\* draft is back in its post-reset state: empty grid, count 0, peek() = (1, 1).
C3_RoundTrip ==
    IsRoundTrip =>
        /\ \A i \in 1..(2 * volume) : trace[i].exc = NoExc
        /\ \A j \in 1..volume : trace[volume + j].val = trace[volume - j + 1].arg
        /\ Filled = {}
        /\ size = 0
        /\ peek.val = <<1, 1>>

\* C5: on a fresh draft the k-th push, k in 1..R*N, returns (ceil(k/N), k) and
\* records its player in the grid at row ceil(k/N), in the column of the
\* snake-order team of pick k.
C5_PushFillsSnakeCell ==
    (trace # <<>> /\ Len(trace) <= volume /\ \A i \in 1..Len(trace) : trace[i].op = "push")
    => LET k == Len(trace)
       IN  /\ trace[k].exc = NoExc
           /\ trace[k].val = <<Ceil(k, nteams), k>>
           /\ results[Ceil(k, nteams)][SnakeTeam(k)] = trace[k].arg

\* C6: in every reachable state the completed-pick count len(draft) is the
\* number of non-empty cells of the results grid.
C6_SizeCountsCells == size = Cardinality(Filled)

\* a pop that follows a push that failed after taking its pick
C6_Witness ==
    /\ ret.op = "pop"
    /\ Len(picks) < volume
    /\ size = Cardinality(Filled)

\* C7: only a successful push advances the cursor: a push that fails because
\* the owning roster could not add the player leaves the grid, the count and
\* the cursor unchanged.
C7_FailedPushKeepsCursor ==
    [][(ret'.op = "push" /\ ret'.exc \notin {NoExc, "StopIteration"})
         => (results' = results /\ size' = size /\ picks' = picks)]_vars

\* C8: peek() leaves the cursor, the grid, the count and the rosters as they
\* were, two consecutive peeks return the same pair, and the push that
\* follows a peek takes exactly the pair that the peek returned.
C8_PeekIsPure ==
    [][/\ ret'.op = "peek"
            => (picks' = picks /\ results' = results /\ size' = size /\ rosters' = rosters)
       /\ (ret.op = "peek" /\ ret'.op = "peek") => ret'.val = ret.val
       /\ (ret.op = "peek" /\ ret'.op = "push" /\ ret.val # NonePair)
            => (Head(picks) = ret.val /\ picks' = Tail(picks))]_vars

\* a peek made after a pick was taken, with picks still remaining
C8_Witness ==
    /\ ret.op = "peek"
    /\ ret.val # NonePair
    /\ ret.val = Head(picks)
    /\ Len(picks) < volume

\* C9: 0 <= count <= R*N, peek() returns (None, None) exactly when the count
\* is R*N, and otherwise returns (ceil((c+1)/N), c+1) for the count c.
C9_ExhaustedIffFull ==
    /\ 0 <= size /\ size <= volume
    /\ peek.val = NonePair <=> size = volume
    /\ size < volume => peek.val = <<Ceil(size + 1, nteams), size + 1>>

\* C10: pop() on a draft with count 0 returns None and leaves the grid, the
\* count, the cursor and every roster unchanged.
C10_PopOnEmpty ==
    [][(ret'.op = "pop" /\ size = 0)
         => /\ ret'.exc = NoExc
            /\ ret'.val = NonePlayer
            /\ results' = results /\ size' = size /\ picks' = picks /\ rosters' = rosters]_vars

\* a pop on count 0 has returned None, with the cursor past the first pick
C10_Witness ==
    /\ ret.op = "pop"
    /\ ret.exc = NoExc
    /\ ret.val = NonePlayer
    /\ size = 0
    /\ Len(picks) < volume

\* C11: reset(), called in any state, leaves the draft in its initial state:
\* every grid cell empty, count 0, and the cursor yielding all R*N picks from
\* (1, 1) on; a second reset therefore changes nothing.
C11_ResetRestoresInitial ==
    ret.op = "reset" =>
        /\ Filled = {}
        /\ size = 0
        /\ picks = [i \in 1..volume |-> <<Ceil(i, nteams), i>>]
        /\ peek.val = <<1, 1>>

\* reset has been called and the full sequence of picks is pending again
C11_Witness ==
    /\ ret.op = "reset"
    /\ Len(picks) = volume
    /\ volume > 1

\* The players in the cells of the grid column of a roster index.
Drafted(column) == {results[r][column] : r \in 1..nrounds} \ {NaN}

\* The players in the slots of a roster.
Held(roster) == UNION {Range(roster[k]) : k \in DOMAIN roster} \ {NonePlayer}

\* C26: in every state reached by push, pop and reset calls on a draft whose
\* rosters start empty, a player is recorded in a grid cell of a team exactly
\* when the roster of that team holds it; after reset no roster holds a
\* player.
C26_GridMatchesRosters ==
    /\ \A column \in 0..(nteams - 1) : Drafted(column) = Held(rosters[column + 1])
    /\ ret.op = "reset" => \A i \in DOMAIN rosters : Held(rosters[i]) = {}

\* a push of a player with a canonical position has been called, and the
\* player is neither in the grid nor on a roster
C26_Witness ==
    /\ ret.op = "push"
    /\ ret.exc = "TypeError"
    /\ PositionsContains(ret.arg.position)
    /\ Len(picks) < volume
    /\ \A column \in 0..(nteams - 1) : ret.arg \notin Drafted(column)
    /\ \A i \in DOMAIN rosters : ret.arg \notin Held(rosters[i])

\* ------------------------------------------------------- claims on rosters
Canonical(players) == \A n \in DOMAIN players : PositionsContains(players[n].position)

Holds(roster, p) == \E k \in DOMAIN roster : p \in Range(roster[k])

Vacant(roster, k) == NonePlayer \in Range(roster[k])

Occupied(roster, k) == Cardinality({s \in DOMAIN roster[k] : roster[k][s] # NonePlayer})

\* Where a player is to land: its natural position if that has a vacant
\* slot, else flex if the position is WR, RB or TE and flex has one, else
\* the bench if that has one, else nowhere ("skip").
Landing(roster, p) ==
    IF Vacant(roster, p.position) THEN p.position
    ELSE IF p.position \in {"WR", "RB", "TE"} /\ Vacant(roster, "W-R-T") THEN "W-R-T"
    ELSE IF Vacant(roster, "BN") THEN "BN"
    ELSE "skip"

FirstVacant(roster, k) == CHOOSE s \in DOMAIN roster[k] :
    roster[k][s] = NonePlayer /\ \A t \in 1..(s - 1) : roster[k][t] # NonePlayer

\* The roster after the players were placed one by one, in input order.
RECURSIVE Placement(_, _)
Placement(roster, players) ==
    IF players = <<>> THEN roster
    ELSE LET p == Head(players)
             k == Landing(roster, p)
         IN  IF k = "skip" THEN Placement(roster, Tail(players))
             ELSE Placement([roster EXCEPT ![k][FirstVacant(roster, k)] = p], Tail(players))

\* C12: add places each player, in input order, into a vacant slot of its
\* natural position, else of flex if the position is flexable, else of the
\* bench, else skips the player without error.
C12_AddPlacesByPreference ==
    [][(ret'.op = "add" /\ Canonical(ret'.arg.players))
         => /\ ret'.exc = NoExc
            /\ rosters'[ret'.arg.roster]
                    = Placement(rosters[ret'.arg.roster], ret'.arg.players)]_vars

\* C13: add returns exactly the players it placed, in input order, and
\* changes only the slots it fills: a slot that changes was vacant and now
\* holds a returned player, and a skipped player changes nothing.
C13_AddReturnsPlaced ==
    [][(ret'.op = "add" /\ Canonical(ret'.arg.players))
         => LET i == ret'.arg.roster
                held(p) == Holds(rosters'[i], p) /\ ~Holds(rosters[i], p)
            IN  /\ ret'.exc = NoExc
                /\ ret'.val = SelectSeq(ret'.arg.players, held)
                /\ \A k \in DOMAIN rosters[i] : \A s \in DOMAIN rosters[i][k] :
                        rosters'[i][k][s] # rosters[i][k][s]
                            => /\ rosters[i][k][s] = NonePlayer
                               /\ rosters'[i][k][s] \in Range(ret'.val)
                /\ \A j \in DOMAIN rosters : j # i => rosters'[j] = rosters[j]]_vars

\* C15: in every roster state reached by add, drop, move, transaction and
\* trade calls, a player occupies at most one slot of the roster.
C15_PlayerInOneSlot ==
    \A i \in DOMAIN rosters :
        \A k1 \in Range(positions), k2 \in Range(positions) :
            \A s1 \in DOMAIN rosters[i][k1], s2 \in DOMAIN rosters[i][k2] :
                (rosters[i][k1][s1] # NonePlayer /\ rosters[i][k1][s1] = rosters[i][k2][s2])
                    => (k1 = k2 /\ s1 = s2)

\* a move that passed the eligibility check has been called
C15_Witness ==
    /\ ret.op = "move"
    /\ ret.arg.destination = bench
    /\ ret.val # "(player)"
    /\ ret.val # "(player, destination)"

\* The codes whose tuples hold p.
Where(roster, p) == {k \in DOMAIN roster : p \in Range(roster[k])}

\* C16: move(player, bench) with replace omitted, called when the bench has a
\* vacant slot and the player is on the roster (it was added to the fresh
\* roster by the call before), succeeds: the player then occupies a bench
\* slot and no other slot.
C16_MoveToVacantBench ==
    (/\ Len(trace) = 2
     /\ trace[1].op = "add"
     /\ trace[2].op = "move"
     /\ trace[2].arg.roster = trace[1].arg.roster
     /\ trace[2].arg.player \in Range(trace[1].arg.players)
     /\ trace[2].arg.destination = bench
     /\ trace[2].arg.replace = NonePlayer)
    => /\ trace[2].exc = NoExc
       /\ Where(rosters[trace[2].arg.roster], trace[2].arg.player) = {bench}

\* C17: move to a destination whose slots are all occupied (the one QB slot,
\* after the two quarterbacks QBF and QBT were added to the fresh roster)
\* raises the missing-replacement error when replace is omitted, and with
\* replace given swaps the player and replace; that error is raised only
\* when the destination is full.
C17_MoveToFullDestination ==
    /\ (/\ Len(trace) = 2
        /\ trace[1].op = "add"
        /\ trace[1].arg.players = <<QBF, QBT>>
        /\ trace[2].op = "move"
        /\ trace[2].arg.roster = trace[1].arg.roster
        /\ trace[2].arg.player = QBT
        /\ trace[2].arg.destination = "QB")
       => IF trace[2].arg.replace = NonePlayer
          THEN trace[2].exc = "ValueError" /\ trace[2].val = "(replace)"
          ELSE /\ trace[2].exc = NoExc
               /\ Where(rosters[trace[2].arg.roster], QBT) = {"QB"}
               /\ Where(rosters[trace[2].arg.roster], QBF) = {bench}
    /\ (/\ trace # <<>>
        /\ trace[Len(trace)].op = "move"
        /\ trace[Len(trace)].exc = "ValueError"
        /\ trace[Len(trace)].val = "(replace)")
       => ~Vacant(rosters[trace[Len(trace)].arg.roster], trace[Len(trace)].arg.destination)

\* C19: trade(other, add=A, drop=D), when other holds A and self holds D (A
\* was added to the fresh roster other and D to the fresh roster self by the
\* two calls before) and both have room, leaves self holding A and not D and
\* other holding D and not A, and returns a summary with an entry for each
\* of the two rosters.
C19_TradeSwapsPlayers ==
    (/\ Len(trace) = 3
     /\ trace[1].op = "add" /\ trace[2].op = "add" /\ trace[3].op = "trade"
     /\ trace[1].arg.roster = trace[3].arg.other
     /\ trace[1].arg.players = trace[3].arg.add.players
     /\ trace[2].arg.roster = trace[3].arg.roster
     /\ trace[2].arg.players = trace[3].arg.drop.players)
    => LET mine == rosters[trace[3].arg.roster]
           theirs == rosters[trace[3].arg.other]
           A == trace[3].arg.add.players
           D == trace[3].arg.drop.players
       IN  /\ trace[3].exc = NoExc
           /\ \A n \in DOMAIN A : Holds(mine, A[n]) /\ ~Holds(theirs, A[n])
           /\ \A n \in DOMAIN D : Holds(theirs, D[n]) /\ ~Holds(mine, D[n])
           /\ trace[3].val = [self |-> Summary(A, D), other |-> Summary(D, A)]

\* C20: transaction applies its add part first and its drop part second and
\* returns the players added and dropped: adding and dropping the same
\* player, not held before, returns it in both lists and leaves the roster as
\* it was.  Each part is optional: with drop omitted only the add is made and
\* the dropped list is empty, and likewise with add omitted.
C20_TransactionAddThenDrop ==
    [][ret'.op = "transaction" =>
        LET i == ret'.arg.roster
            a == ret'.arg.add
            d == ret'.arg.drop
        IN  /\ (/\ a = d
                /\ a.kind = "Player"
                /\ Canonical(a.players)
                /\ ~Holds(rosters[i], a.players[1])
                /\ Landing(rosters[i], a.players[1]) # "skip")
                => /\ ret'.exc = NoExc
                   /\ ret'.val = Summary(a.players, d.players)
                   /\ rosters' = rosters
            /\ (d = Omitted /\ a # Omitted /\ Canonical(a.players))
                => /\ ret'.exc = NoExc
                   /\ ret'.val.minus = <<>>
                   /\ rosters'[i] = Placement(rosters[i], a.players)
            /\ (a = Omitted /\ d = Many(<<>>))
                => /\ ret'.exc = NoExc
                   /\ ret'.val = Summary(<<>>, <<>>)
                   /\ rosters' = rosters]_vars

\* C25: drop(player) raises the not-found error (ValueError) and leaves the
\* roster as it was whenever the player is in no slot of its natural
\* position, also when it is held in a flex or bench slot; when the player is
\* in a slot of its natural position, drop vacates that one slot and returns
\* the player.
C25_DropFromNaturalSlot ==
    [][(ret'.op = "drop" /\ ret'.arg.players # <<>> /\ Canonical(ret'.arg.players))
         => LET i == ret'.arg.roster
                player == ret'.arg.players[1]
                natural == player.position
            IN  IF player \notin Range(rosters[i][natural])
                THEN /\ ret'.exc = "ValueError"
                     /\ rosters' = rosters
                ELSE Len(ret'.arg.players) = 1
                        => /\ ret'.exc = NoExc
                           /\ ret'.val = <<player>>
                           /\ \E s \in DOMAIN rosters[i][natural] :
                                /\ rosters[i][natural][s] = player
                                /\ rosters' = [rosters EXCEPT ![i][natural][s] = NonePlayer]]_vars

\* a drop of a quarterback that is in no quarterback slot has raised the
\* not-found error
C25_Witness ==
    /\ ret.op = "drop"
    /\ ret.arg.players = <<QBF>>
    /\ QBF \notin Range(rosters[ret.arg.roster]["QB"])
    /\ ret.exc = "ValueError"

\* The slots of a roster that hold p, as (code, index) pairs.
SlotsOf(roster, p) ==
    {ks \in UNION {{k} \X DOMAIN roster[k] : k \in DOMAIN roster} : roster[ks[1]][ks[2]] = p}

\* C27: whenever trade(other, add=A, drop=D) returns without raising, the
\* two rosters together hold every player as many times as before the call,
\* and no player is held by both.
C27_TradeConserves ==
    [][(ret'.op = "trade" /\ ret'.exc = NoExc)
         => LET i == ret'.arg.roster
                j == ret'.arg.other
            IN  \A p \in RosterPlayers :
                    /\ Cardinality(SlotsOf(rosters'[i], p)) + Cardinality(SlotsOf(rosters'[j], p))
                        = Cardinality(SlotsOf(rosters[i], p)) + Cardinality(SlotsOf(rosters[j], p))
                    /\ ~(Holds(rosters'[i], p) /\ Holds(rosters'[j], p))]_vars

\* a trade has returned a summary for each of the two rosters
C27_Witness ==
    /\ ret.op = "trade"
    /\ ret.exc = NoExc
    /\ ret.arg.roster # ret.arg.other
    /\ ret.val = [self |-> Summary(<<>>, <<>>), other |-> Summary(<<>>, <<>>)]

\* ------------------------------------------------------- claims on schemas
\* The canonical codes of a preset: offense, flex, dst, kicker, bench and
\* injured reserve.
CanonicalCodes(cls) ==
    {"QB", "WR", "RB", "TE", "K", "BN", "IR"}
        \cup (IF cls = "PositionsESPN" THEN {"FLEX", "D/ST"} ELSE {"W-R-T", "DEF"})

NonNegative(c) == c.type \in {"int", "bool"} /\ c.value >= 0

\* C21: constructing a schema raises a configuration error (KeyError or
\* ValueError) if the keys of the counts are not the canonical codes or some
\* count is not a non-negative integer, a negative integer included, and
\* returns for every mapping of the canonical codes to non-negative integers.
C21_ConstructValidates ==
    ret.op = "Positions" =>
        LET counts == ret.arg.schema
        IN  IF /\ DOMAIN counts = CanonicalCodes(ret.arg.cls)
               /\ \A k \in DOMAIN counts : NonNegative(counts[k])
            THEN ret.exc = NoExc
            ELSE ret.exc \in {"KeyError", "ValueError"}

\* Offense codes, then flex, dst, kicker, bench and injured reserve.
ExpectedPositions(cls) ==
    <<"QB", "WR", "RB", "TE">>
        \o (IF cls = "PositionsESPN" THEN <<"FLEX", "D/ST">> ELSE <<"W-R-T", "DEF">>)
        \o <<"K", "BN", "IR">>

NoDuplicates(codes) == \A m \in DOMAIN codes, n \in DOMAIN codes : codes[m] = codes[n] => m = n

\* The sum of the counts of a mapping.
RECURSIVE SumCounts(_, _)
SumCounts(counts, keys) ==
    IF keys = {} THEN 0
    ELSE LET k == CHOOSE x \in keys : TRUE
         IN  counts[k].value + SumCounts(counts, keys \ {k})

\* C22: for an object of either preset, positions is the offense codes
\* followed by the flex, dst, kicker, bench and injured-reserve codes, without
\* duplicates, and len() of an object whose counts are non-negative integers
\* is the sum of its slot counts.
C22_PositionsAndLen ==
    /\ ret.op = "positions"
        => (ret.val = ExpectedPositions(ret.arg.cls) /\ NoDuplicates(ret.val))
    /\ (ret.op = "__len__" /\ \A k \in DOMAIN ret.arg.schema : NonNegative(ret.arg.schema[k]))
        => (ret.exc = NoExc /\ ret.val = SumCounts(ret.arg.schema, DOMAIN ret.arg.schema))

\* C24: in every state reached by add, drop and move calls on the rosters
\* built over a schema, the slot sequence of every position code has as many
\* slots as the schema counts for that code, each holding a player or the
\* empty marker.
C24_SlotLengthsFixed ==
    \A i \in DOMAIN rosters :
        /\ DOMAIN rosters[i] = DOMAIN instance.schema
        /\ \A k \in DOMAIN rosters[i] :
            /\ Len(rosters[i][k]) = instance.schema[k].value
            /\ \A s \in DOMAIN rosters[i][k] :
                rosters[i][k][s] = NonePlayer \/ rosters[i][k][s] \in RosterPlayers

\* The occupied slots of all codes of a roster together.
RECURSIVE TotalOccupied(_, _)
TotalOccupied(roster, keys) ==
    IF keys = {} THEN 0
    ELSE LET k == CHOOSE x \in keys : TRUE
         IN  Occupied(roster, k) + TotalOccupied(roster, keys \ {k})

\* C14: after any sequence of add calls on a roster, every position code has
\* at most as many occupied slots as the schema of the roster counts for it,
\* and the roster as a whole at most as many as the schema counts in total.
C14_AddWithinCapacity ==
    \A i \in DOMAIN rosters :
        /\ \A k \in DOMAIN rosters[i] : Occupied(rosters[i], k) <= instance.schema[k].value
        /\ TotalOccupied(rosters[i], DOMAIN rosters[i])
            <= SumCounts(instance.schema, DOMAIN instance.schema)

\* The eligibility table of moveable for the codes of a preset.
Eligible(cls, player, destination) ==
    \/ destination = "BN"
    \/ destination = player.position
    \/ (player.injured_reserve /\ destination = "IR")
    \/ /\ player.position \in {"WR", "RB", "TE"}
       /\ destination = (IF cls = "PositionsESPN" THEN "FLEX" ELSE "W-R-T")

\* C18: on an object of either preset and for a player with a canonical
\* position, moveable(player, destination) is the eligibility table for a
\* canonical destination and raises the unknown-position error (KeyError) for
\* any other, and move raises the illegal-move error,
\* ValueError(player, destination), exactly when moveable is false.
C18_MoveableTable ==
    /\ (ret.op = "moveable" /\ ret.arg.player.position \in CanonicalCodes(ret.arg.cls))
        => IF ret.arg.destination \in CanonicalCodes(ret.arg.cls)
           THEN /\ ret.exc = NoExc
                /\ ret.val <=> Eligible(ret.arg.cls, ret.arg.player, ret.arg.destination)
           ELSE ret.exc = "KeyError"
    /\ (/\ ret.op = "move"
        /\ ret.arg.player.position \in CanonicalCodes(instance.cls)
        /\ ret.arg.destination \in CanonicalCodes(instance.cls))
        => ((ret.exc = "ValueError" /\ ret.val = "(player, destination)")
                <=> ~Eligible(instance.cls, ret.arg.player, ret.arg.destination))

====
